---------------------------- MODULE Spec2Model ----------------------------
(***************************************************************************)
(* Model of mcp-time-server: the TimeServer resolver                       *)
(* (src/src/mcp_time_server/server.py), its tool-invocation handler and    *)
(* the aiohttp front end TimeServerAPI (src/src/mcp_time_server/api.py).   *)
(*                                                                         *)
(* Python values are modelled as follows.                                  *)
(*   Optional[T]   a sequence of length <= 1: <<>> is None, <<v>> is v.    *)
(*   str           a TLA+ string; Chars gives its code points, which is    *)
(*                 what sorting and URL routing read.                      *)
(*   dict argument a sequence of <<key, value>> pairs.                     *)
(*   a call        either Return(v) or Raise(exception class, message).    *)
(*   a method      an operator returning Ret(self', outcome), so that a    *)
(*                 method's effect on the instance is part of its result.  *)
(*   an instant    a tick of the system clock, 0 .. MaxClock.              *)
(*                                                                         *)
(* The platform (zoneinfo, datetime, aiohttp's router) is modelled by what *)
(* the calls the code makes return.  The timezone database is the one the  *)
(* process starts with: it does not change while the server runs.          *)
(* TimeZoneError and ConfigurationError (mcp_time_server.exceptions) are   *)
(* exception classes of their own, unrelated to ZoneInfoNotFoundError and  *)
(* ValueError.  Handlers contain no await that yields, so each runs to     *)
(* completion on the event loop; requests wait in pending in any order.    *)
(***************************************************************************)
EXTENDS Integers, Sequences, FiniteSets, TLC

VARIABLES
    args_timezone, \* Optional[str]: args.timezone once __main__.main parsed it
    instance,   \* Optional[TimeServer]: the object __main__.main holds
    init_error, \* Optional[exception class] raised by TimeServer.__init__
    started,    \* whether the constructor has been run
    clock,      \* the system clock read by datetime.datetime.now
    pending,    \* requests accepted by the event loop and not yet handled
    last        \* Optional: the request handled last, with its outcome

vars == <<args_timezone, instance, init_error, started, clock, pending, last>>

\* ------------------------------------------------------------------ bounds

MaxClock == 2
MaxPending == 2

\* ------------------------------------------------------------ Python values

None == <<>>
Some(v) == <<v>>

Return(v) == [tag |-> "return", value |-> v, exc |-> "", msg |-> <<>>]
Raise(e, m) == [tag |-> "raise", value |-> <<>>, exc |-> e, msg |-> m]
Ret(self, outcome) == [self |-> self, outcome |-> outcome]

\* The code points of the strings the model uses (Python str is a sequence
\* of code points; sorted() and the URL router compare them).
Chars ==
    [s \in {"UTC", "America/New_York", "Europe/Dublin", "Invalid/Zone",
            "posixrules", "../UTC", "", "/", "/time", "/time/", "/zones",
            "/health"} |->
       CASE s = "UTC" -> <<85, 84, 67>>
         [] s = "America/New_York" ->
              <<65, 109, 101, 114, 105, 99, 97, 47, 78, 101, 119, 95, 89, 111, 114, 107>>
         [] s = "Europe/Dublin" ->
              <<69, 117, 114, 111, 112, 101, 47, 68, 117, 98, 108, 105, 110>>
         [] s = "Invalid/Zone" ->
              <<73, 110, 118, 97, 108, 105, 100, 47, 90, 111, 110, 101>>
         [] s = "posixrules" -> <<112, 111, 115, 105, 120, 114, 117, 108, 101, 115>>
         [] s = "../UTC" -> <<46, 46, 47, 85, 84, 67>>
         [] s = "" -> <<>>
         [] s = "/" -> <<47>>
         [] s = "/time" -> <<47, 116, 105, 109, 101>>
         [] s = "/time/" -> <<47, 116, 105, 109, 101, 47>>
         [] s = "/zones" -> <<47, 122, 111, 110, 101, 115>>
         [] s = "/health" -> <<47, 104, 101, 97, 108, 116, 104>>]

\* Python's str comparison: lexicographic on code points, a proper prefix
\* being smaller.
RECURSIVE SeqLess(_, _)
SeqLess(a, b) ==
    IF b = <<>> THEN FALSE
    ELSE IF a = <<>> THEN TRUE
    ELSE IF Head(a) /= Head(b) THEN Head(a) < Head(b)
    ELSE SeqLess(Tail(a), Tail(b))

StrLess(s, t) == SeqLess(Chars[s], Chars[t])

\* ---------------------------------------------- platform timezone database

\* The identifiers callers supply in the model.
Keys == {"UTC", "America/New_York", "Europe/Dublin", "posixrules",
         "Invalid/Zone", "../UTC", ""}

\* The identifiers the server is started with (--timezone).
DefaultKeys == {"UTC", "America/New_York", "Invalid/Zone", "../UTC", ""}

\* Keys zoneinfo refuses before looking for a file (not a normalized
\* relative path below TZPATH): ZoneInfo raises ValueError for them.
MalformedKeys == {"../UTC", ""}

\* Keys with a TZif file on TZPATH.
TZifFiles == {"UTC", "America/New_York", "Europe/Dublin", "posixrules"}

\* zoneinfo.available_timezones(): the keys with a TZif file, "posixrules"
\* left out.
available_timezones == TZifFiles \ {"posixrules"}

\* zoneinfo.ZoneInfo(key): a zone object, or ZoneInfoNotFoundError, or
\* ValueError for a malformed key.
ZoneInfo(key) ==
    IF key \in MalformedKeys
    THEN Raise("ValueError", <<"ZoneInfo keys must be normalized relative paths, got: ", key>>)
    ELSE IF key \in TZifFiles
    THEN Return([key |-> key])
    ELSE Raise("ZoneInfoNotFoundError", <<"No time zone found with key ", key>>)

\* What each zone reports, one period per clock tick (the last period lasts):
\* utcoff is utcoffset() in seconds, dst is dst() in seconds.
ZonePeriods ==
    [k \in TZifFiles |->
       CASE k = "UTC" -> <<[utcoff |-> 0, dst |-> 0]>>
         [] k = "America/New_York" ->
              <<[utcoff |-> -17762, dst |-> 0], [utcoff |-> -18000, dst |-> 0],
                [utcoff |-> -14400, dst |-> 3600]>>
         [] k = "Europe/Dublin" ->
              <<[utcoff |-> -1521, dst |-> 0], [utcoff |-> 2079, dst |-> 3600],
                [utcoff |-> 0, dst |-> -3600], [utcoff |-> 3600, dst |-> 0]>>
         [] k = "posixrules" ->
              <<[utcoff |-> -18000, dst |-> 0], [utcoff |-> -14400, dst |-> 3600]>>]

PeriodAt(tz, now) ==
    LET ps == ZonePeriods[tz.key]
    IN ps[IF now + 1 > Len(ps) THEN Len(ps) ELSE now + 1]

\* datetime.utcoffset() and datetime.dst() of datetime.now(tz): Optional
\* timedeltas, in seconds.
utcoffset(tz, now) == Some(PeriodAt(tz, now).utcoff)
dst(tz, now) == Some(PeriodAt(tz, now).dst)

\* ------------------------------------------------------------- TimeServer

\* TimeServer.__init__(default_timezone)
TimeServer__init__(default_timezone) ==
    LET z == ZoneInfo(default_timezone)
    IN IF z.tag = "return"
       THEN Return([_default_tz |-> z.value,
                    _available_zones |-> available_timezones])
       ELSE IF z.exc = "ZoneInfoNotFoundError"
       THEN Raise("ConfigurationError", <<"Invalid default timezone: ", default_timezone>>)
       ELSE z

\* A plausible slip: "if timezone is not None" for "if timezone".
Truthy_not_none(timezone) == timezone /= None

\* Python truth value of an Optional[str] ("if timezone").
Truthy(timezone) == timezone /= None /\ timezone[1] /= ""

\* A plausible slip: the membership test inverted.
NotInCatalog_inverted(self, timezone) ==
    Truthy(timezone) /\ timezone[1] \in self._available_zones

\* timezone and timezone not in self._available_zones
NotInCatalog(self, timezone) ==
    Truthy(timezone) /\ timezone[1] \notin self._available_zones

\* int(seconds / 60): true division, then truncation toward zero.  Zone
\* offsets are whole seconds below 2^53, so the float quotient is exact
\* enough for int() to give the truncated integer quotient.
\* A plausible slip: floor division, int(seconds // 60).
offset_minutes_floor(seconds) == seconds \div 60

offset_minutes(seconds) ==
    IF seconds >= 0 THEN seconds \div 60 ELSE -((-seconds) \div 60)

\* A plausible slip: only a positive adjustment counts.
is_dst_positive(d) == d /= None /\ d[1] > 0

\* now.dst() is not None and now.dst() != datetime.timedelta(0)
is_dst(d) == d /= None /\ d[1] /= 0

\* str(timezone) in an f-string: None prints as "None".
Fmt(timezone) == IF timezone = None THEN "None" ELSE timezone[1]

\* The body of _get_time after the zone is resolved (lines 114-130).
TimeDescriptor(self, timezone, tz, now) ==
    IF NotInCatalog(self, timezone)
    THEN Raise("TimeZoneError", <<"Unknown timezone: ", Fmt(timezone)>>)
    ELSE LET utc_offset == utcoffset(tz, now)
         IN IF utc_offset = None
            THEN Raise("TimeZoneError", <<"Invalid timezone offset for ", Fmt(timezone)>>)
            ELSE Return([timestamp |-> now,
                         iso_time |-> [instant |-> now, utcoffset |-> utc_offset[1]],
                         timezone |-> tz.key,
                         timezone_offset |-> offset_minutes(utc_offset[1]),
                         is_dst |-> is_dst(dst(tz, now))])

\* A plausible slip: a zone that was constructed is remembered as valid.
_get_time_caching(self, timezone, now) ==
    LET z == IF Truthy(timezone) THEN ZoneInfo(timezone[1])
             ELSE Return(self._default_tz)
    IN IF z.tag = "raise"
       THEN IF z.exc = "ZoneInfoNotFoundError"
            THEN Ret(self, Raise("TimeZoneError", <<"Invalid timezone: ", Fmt(timezone)>>))
            ELSE Ret(self, z)
       ELSE Ret([self EXCEPT !._available_zones = @ \cup {z.value.key}],
                TimeDescriptor(self, timezone, z.value, now))

\* TimeServer._get_time(timezone), run at clock instant now.
_get_time(self, timezone, now) ==
    LET z == IF Truthy(timezone) THEN ZoneInfo(timezone[1])
             ELSE Return(self._default_tz)
    IN IF z.tag = "raise"
       THEN IF z.exc = "ZoneInfoNotFoundError"
            THEN Ret(self, Raise("TimeZoneError", <<"Invalid timezone: ", Fmt(timezone)>>))
            ELSE Ret(self, z)
       ELSE Ret(self, TimeDescriptor(self, timezone, z.value, now))

\* A plausible slip: descending order.
RECURSIVE sorted_reverse(_)
sorted_reverse(S) ==
    IF S = {} THEN <<>>
    ELSE LET m == CHOOSE x \in S : \A y \in S \ {x} : StrLess(y, x)
         IN <<m>> \o sorted_reverse(S \ {m})

\* sorted(list(S)) for a set of str.
RECURSIVE sorted(_)
sorted(S) ==
    IF S = {} THEN <<>>
    ELSE LET m == CHOOSE x \in S : \A y \in S \ {x} : StrLess(x, y)
         IN <<m>> \o sorted(S \ {m})

\* TimeServer._get_available_timezones()
_get_available_timezones(self) ==
    Ret(self, Return([timezones |-> sorted(self._available_zones),
                      count |-> Cardinality(self._available_zones)]))

\* dict.get(key, None) on a dict given as a sequence of <<key, value>> pairs.
DictGet(d, key) ==
    IF \E i \in 1..Len(d) : d[i][1] = key
    THEN Some(d[CHOOSE i \in 1..Len(d) : d[i][1] = key][2])
    ELSE None

\* handle_invoke_tool(name, arguments), registered by _setup_mcp_handlers.
handle_invoke_tool(self, name, arguments, now) ==
    IF name = "get_time"
    THEN _get_time(self, DictGet(arguments, "timezone"), now)
    ELSE IF name = "list_timezones"
    THEN _get_available_timezones(self)
    ELSE Ret(self, Raise("ValueError", <<"Unknown tool: ", name>>))

\* ----------------------------------------------------------- TimeServerAPI

\* The attributes an instance of class TimeServer has: those __init__ sets
\* and the methods the class body defines.
TimeServerAttrs == {"_default_tz", "_available_zones", "server",
                    "_setup_mcp_handlers", "_get_time",
                    "_get_available_timezones", "serve"}

\* self.time_server.<name>(...): attribute lookup, then the call.
CallMethod(self, name, timezone, now) ==
    IF name \notin TimeServerAttrs
    THEN Ret(self, Raise("AttributeError",
                         <<"'TimeServer' object has no attribute ", name>>))
    ELSE IF name = "_get_time" THEN _get_time(self, timezone, now)
    ELSE IF name = "_get_available_timezones" THEN _get_available_timezones(self)
    ELSE Ret(self, Raise("TypeError", <<"not callable: ", name>>))

\* web.json_response(body, status=status)
json_response(body, status) == [status |-> status, body |-> body]
ErrorBody(outcome) == [error |-> outcome.msg]

\* TimeServerAPI.get_time: GET / and GET /time.
get_time(self, now) ==
    LET r == CallMethod(self, "get_time", None, now)
    IN Ret(r.self, IF r.outcome.tag = "return"
                   THEN json_response(r.outcome.value, 200)
                   ELSE json_response(ErrorBody(r.outcome), 500))

\* TimeServerAPI.get_time_zone: GET /time/{timezone}.
get_time_zone(self, timezone, now) ==
    LET r == CallMethod(self, "get_time", Some(timezone), now)
    IN Ret(r.self, IF r.outcome.tag = "return"
                   THEN json_response(r.outcome.value, 200)
                   ELSE IF r.outcome.exc = "TimeZoneError"
                   THEN json_response(ErrorBody(r.outcome), 400)
                   ELSE json_response(ErrorBody(r.outcome), 500))

\* TimeServerAPI.list_zones: GET /zones.
list_zones(self) ==
    LET r == CallMethod(self, "get_available_timezones", None, 0)
    IN Ret(r.self, IF r.outcome.tag = "return"
                   THEN json_response(r.outcome.value, 200)
                   ELSE json_response(ErrorBody(r.outcome), 500))

\* TimeServerAPI.health_check: GET /health.
health_check(self) ==
    Ret(self, json_response([status |-> "healthy", version |-> "0.1.0"], 200))

\* The code points of a request path given as a sequence of str pieces.
RECURSIVE PathChars(_)
PathChars(path) ==
    IF path = <<>> THEN <<>> ELSE Chars[Head(path)] \o PathChars(Tail(path))

Slash == 47

\* Whether code points p start with code points q.
StartsWith(p, q) == Len(p) >= Len(q) /\ SubSeq(p, 1, Len(q)) = q

\* The routes of _setup_routes, matched as aiohttp matches them: a plain
\* route matches its path exactly, and {timezone} matches one non-empty
\* path segment, that is, code points other than "/".
Route(path) ==
    LET p == PathChars(path)
        rest == SubSeq(p, Len(Chars["/time/"]) + 1, Len(p))
    IN IF p = Chars["/"] \/ p = Chars["/time"] THEN [handler |-> "get_time", timezone |-> <<>>]
       ELSE IF /\ StartsWith(p, Chars["/time/"])
               /\ rest /= <<>>
               /\ \A i \in 1..Len(rest) : rest[i] /= Slash
       THEN [handler |-> "get_time_zone", timezone |-> rest]
       ELSE IF p = Chars["/zones"] THEN [handler |-> "list_zones", timezone |-> <<>>]
       ELSE IF p = Chars["/health"] THEN [handler |-> "health_check", timezone |-> <<>>]
       ELSE [handler |-> "not_found", timezone |-> <<>>]

\* request.match_info["timezone"] as a str.
StrOf(cps) == CHOOSE s \in DOMAIN Chars : Chars[s] = cps

\* The application's answer to GET path.
HttpGet(self, path, now) ==
    LET m == Route(path)
    IN CASE m.handler = "get_time" -> get_time(self, now)
         [] m.handler = "get_time_zone" -> get_time_zone(self, StrOf(m.timezone), now)
         [] m.handler = "list_zones" -> list_zones(self)
         [] m.handler = "health_check" -> health_check(self)
         [] OTHER -> Ret(self, json_response([error |-> <<"Not Found">>], 404))

\* ---------------------------------------------------------------- requests

Req(kind, op, timezone, arguments, path) ==
    [kind |-> kind, op |-> op, timezone |-> timezone,
     arguments |-> arguments, path |-> path]

\* Direct calls of the two resolver methods.
CallRequests ==
    {Req("call", "_get_time", tz, <<>>, <<>>) :
        tz \in {None} \cup {Some(k) : k \in Keys}}
    \cup {Req("call", "_get_available_timezones", None, <<>>, <<>>)}

\* Tool invocations.
ToolRequests ==
    {Req("tool", "get_time", None, a, <<>>) :
        a \in {<<>>, << <<"timezone", "Europe/Dublin">> >>}}
    \cup {Req("tool", n, None, <<>>, <<>>) : n \in {"list_timezones", "set_time"}}

\* HTTP GET requests.
HttpRequests ==
    {Req("http", "GET", None, <<>>, p) :
        p \in {<<"/">>, <<"/time">>, <<"/zones">>, <<"/health">>}
              \cup {<<"/time/", k>> :
                      k \in {"UTC", "America/New_York", "Invalid/Zone"}}}

Requests == CallRequests \cup ToolRequests \cup HttpRequests

\* ------------------------------------------------------------------ actions

Init ==
    /\ args_timezone = None
    /\ instance = None
    /\ init_error = None
    /\ started = FALSE
    /\ clock = 0
    /\ pending = {}
    /\ last = None

\* __main__.main: TimeServer(default_timezone=args.timezone).  An exception
\* leaves main, and the process ends without serving.
Construct(default_timezone) ==
    /\ ~started
    /\ started' = TRUE
    /\ args_timezone' = Some(default_timezone)
    /\ LET r == TimeServer__init__(default_timezone)
       IN IF r.tag = "return"
          THEN instance' = Some(r.value) /\ init_error' = None
          ELSE instance' = None /\ init_error' = Some(r.exc)
    /\ UNCHANGED <<clock, pending, last>>

\* The system clock advances.
Tick ==
    /\ clock < MaxClock
    /\ clock' = clock + 1
    /\ UNCHANGED <<args_timezone, instance, init_error, started, pending, last>>

\* A caller issues a request to the running server.
Submit(req) ==
    /\ instance /= None
    /\ req \notin pending
    /\ Cardinality(pending) < MaxPending
    /\ pending' = pending \cup {req}
    /\ UNCHANGED <<args_timezone, instance, init_error, started, clock, last>>

Done(req, r) ==
    /\ instance' = Some(r.self)
    /\ last' = Some([req |-> req, outcome |-> r.outcome])
    /\ pending' = pending \ {req}
    /\ UNCHANGED <<args_timezone, init_error, started, clock>>

\* A direct call of a resolver method runs to completion.
HandleCall(req) ==
    /\ instance /= None
    /\ req \in pending
    /\ req.kind = "call"
    /\ Done(req, CallMethod(instance[1], req.op, req.timezone, clock))

\* A tool invocation runs to completion.
HandleTool(req) ==
    /\ instance /= None
    /\ req \in pending
    /\ req.kind = "tool"
    /\ Done(req, handle_invoke_tool(instance[1], req.op, req.arguments, clock))

\* An HTTP request is routed and its handler runs to completion.
HandleHttp(req) ==
    /\ instance /= None
    /\ req \in pending
    /\ req.kind = "http"
    /\ Done(req, HttpGet(instance[1], req.path, clock))

Next ==
    \/ \E k \in DefaultKeys : Construct(k)
    \/ Tick
    \/ \E req \in Requests : Submit(req)
    \/ \E req \in Requests : HandleCall(req)
    \/ \E req \in Requests : HandleTool(req)
    \/ \E req \in Requests : HandleHttp(req)

Spec == Init /\ [][Next]_vars

\* --------------------------------------------------------------- properties

\* The requests that are resolveTime calls, and the timezone argument of one.
IsResolve(req) ==
    \/ req.kind = "call" /\ req.op = "_get_time"
    \/ req.kind = "tool" /\ req.op = "get_time"
ArgOf(req) ==
    IF req.kind = "call" THEN req.timezone ELSE DictGet(req.arguments, "timezone")

\* The requests that are listTimezones calls.
IsList(req) ==
    \/ req.kind = "call" /\ req.op = "_get_available_timezones"
    \/ req.kind = "tool" /\ req.op = "list_timezones"

\* The identifiers listTimezones().timezones holds.
Listed(self) ==
    LET tzs == _get_available_timezones(self).outcome.value.timezones
    IN {tzs[i] : i \in 1..Len(tzs)}

\* A resolveTime call has just completed.
Resolved == last /= None /\ instance /= None /\ IsResolve(last[1].req)

\* C1: resolveTime of a supplied (non-empty) identifier that is not listed,
\* or that the zone constructor rejects, fails with TimeZoneError and with
\* no other error.
C1_InvalidIdentifierRaisesTimeZoneError ==
    Resolved =>
        LET arg == ArgOf(last[1].req)
        IN (/\ arg /= None
            /\ arg[1] /= ""
            /\ \/ arg[1] \notin Listed(instance[1])
               \/ ZoneInfo(arg[1]).tag = "raise")
           => /\ last[1].outcome.tag = "raise"
              /\ last[1].outcome.exc = "TimeZoneError"

\* C2: resolveTime of a listed identifier returns a descriptor whose
\* timezone is that identifier, whatever the default zone.
C2_ListedIdentifierResolves ==
    Resolved =>
        LET arg == ArgOf(last[1].req)
        IN (arg /= None /\ arg[1] \in Listed(instance[1]))
           => /\ last[1].outcome.tag = "return"
              /\ last[1].outcome.value.timezone = arg[1]

C2_Witness ==
    /\ Resolved
    /\ ArgOf(last[1].req) = Some("Europe/Dublin")
    /\ instance[1]._default_tz.key = "America/New_York"
    /\ last[1].outcome.tag = "return"

\* C3: construction with a default the zone database cannot resolve fails
\* with ConfigurationError and nothing else, and no instance serves a call.
C3_UnresolvableDefaultRaisesConfigurationError ==
    (args_timezone /= None /\ ZoneInfo(args_timezone[1]).tag = "raise")
    => /\ init_error = Some("ConfigurationError")
       /\ instance = None
       /\ pending = {}
       /\ last = None

\* C4: listTimezones returns exactly the catalog snapshot, strictly
\* ascending (sorted, no duplicates), with count the sequence's length.
C4_ListIsSortedCatalog ==
    (last /= None /\ IsList(last[1].req)) =>
        /\ last[1].outcome.tag = "return"
        /\ LET v == last[1].outcome.value
           IN /\ {v.timezones[i] : i \in 1..Len(v.timezones)} = available_timezones
              /\ \A i \in 1..(Len(v.timezones) - 1) :
                    StrLess(v.timezones[i], v.timezones[i + 1])
              /\ v.count = Len(v.timezones)

C4_Witness ==
    /\ last /= None
    /\ IsList(last[1].req)
    /\ last[1].outcome.tag = "return"
    /\ Len(last[1].outcome.value.timezones) >= 2

\* C5: resolveTime with an absent or empty timezone returns the default
\* identifier; "UTC" always constructs, and then gives "UTC" with offset 0.
C5_AbsentOrEmptyUsesDefault ==
    /\ (started /\ args_timezone = Some("UTC")) =>
           instance /= None /\ init_error = None
    /\ Resolved =>
        LET arg == ArgOf(last[1].req)
        IN (arg = None \/ arg = Some(""))
           => /\ last[1].outcome.tag = "return"
              /\ last[1].outcome.value.timezone = args_timezone[1]
              /\ args_timezone = Some("UTC")
                    => last[1].outcome.value.timezone_offset = 0

C5_Witness ==
    /\ Resolved
    /\ ArgOf(last[1].req) = Some("")
    /\ args_timezone = Some("America/New_York")
    /\ last[1].outcome.tag = "return"

\* The zone identifier of GET /time/Z.
IsZonePath(path) == Len(path) = 2 /\ path[1] = "/time/"

\* C6: GET /time/Z answers as resolveTime(Z) does: 200 with the descriptor
\* for a valid Z, 400 with an error body on TimeZoneError, 500 only on
\* another failure.
C6_ZoneRouteMirrorsResolveTime ==
    (last /= None /\ instance /= None /\ last[1].req.kind = "http"
        /\ IsZonePath(last[1].req.path)) =>
        LET Z == last[1].req.path[2]
            r == _get_time(instance[1], Some(Z), clock).outcome
            resp == last[1].outcome
        IN /\ r.tag = "return"
                => resp.status = 200 /\ resp.body.timezone = Z
           /\ (r.tag = "raise" /\ r.exc = "TimeZoneError")
                => resp.status = 400 /\ resp.body = [error |-> r.msg]
           /\ resp.status = 500
                => r.tag = "raise" /\ r.exc /= "TimeZoneError"

\* C7: GET / and GET /time answer 200 with the descriptor of the default
\* zone on a constructed resolver.
C7_DefaultRoutesAnswer200 ==
    (last /= None /\ instance /= None /\ last[1].req.kind = "http"
        /\ last[1].req.path \in {<<"/">>, <<"/time">>}) =>
        /\ last[1].outcome.status = 200
        /\ last[1].outcome.body.timezone = args_timezone[1]

\* What a call answers on the instance as the constructor left it.
FreshOutcome(req, now) ==
    LET self == TimeServer__init__(args_timezone[1]).value
    IN IF req.kind = "call"
       THEN CallMethod(self, req.op, req.timezone, now).outcome
       ELSE handle_invoke_tool(self, req.op, req.arguments, now).outcome

\* Whether a call raised, and what.
Verdict(outcome) == <<outcome.tag, outcome.exc>>

\* C8: no call changes the catalog snapshot or the default zone, so a call
\* succeeds or fails, and listTimezones answers, as on the fresh instance.
C8_CallsLeaveResolverUnchanged ==
    /\ [][instance /= None => instance' = instance]_vars
    /\ [](instance /= None =>
            instance[1] = TimeServer__init__(args_timezone[1]).value)
    /\ []((last /= None /\ last[1].req.kind \in {"call", "tool"}) =>
            /\ Verdict(last[1].outcome) = Verdict(FreshOutcome(last[1].req, 0))
            /\ IsList(last[1].req) =>
                  last[1].outcome = FreshOutcome(last[1].req, 0))

C8_Witness ==
    /\ Resolved
    /\ last[1].outcome.tag = "raise"
    /\ last[1].outcome.exc = "TimeZoneError"
    /\ ArgOf(last[1].req) = Some("posixrules")
    /\ \E req \in pending : IsResolve(req) /\ ArgOf(req) = Some("posixrules")

\* The whole minutes of an offset of s seconds, truncated toward zero.
WholeMinutes(s) ==
    CHOOSE m \in {s \div 60, (s \div 60) + 1} :
        /\ s >= 0 => (m >= 0 /\ 60 * m <= s /\ s < 60 * (m + 1))
        /\ s < 0 => (m <= 0 /\ 60 * m >= s /\ s > 60 * (m - 1))

\* C9: timezone_offset is the zone's UTC offset at the captured instant in
\* whole minutes truncated toward zero, and timestamp and iso_time are of
\* that same instant.
C9_OffsetTruncatesTowardZero ==
    (Resolved /\ last[1].outcome.tag = "return") =>
        LET v == last[1].outcome.value
            off == utcoffset([key |-> v.timezone], v.timestamp)[1]
        IN /\ v.timezone_offset = WholeMinutes(off)
           /\ v.iso_time = [instant |-> v.timestamp, utcoffset |-> off]

C9_Witness ==
    /\ Resolved
    /\ last[1].outcome.tag = "return"
    /\ last[1].outcome.value.timezone = "America/New_York"
    /\ last[1].outcome.value.iso_time.utcoffset = -17762
    /\ last[1].outcome.value.timezone_offset = -296

\* C10: is_dst is true exactly when the zone reports a non-zero DST
\* adjustment at the captured instant; for "UTC" it is always false.
C10_IsDstIffNonZeroAdjustment ==
    (Resolved /\ last[1].outcome.tag = "return") =>
        LET v == last[1].outcome.value
            d == dst([key |-> v.timezone], v.timestamp)
        IN /\ v.is_dst <=> (d /= None /\ d[1] /= 0)
           /\ v.timezone = "UTC" => ~v.is_dst

C10_Witness ==
    /\ Resolved
    /\ last[1].outcome.tag = "return"
    /\ last[1].outcome.value.timezone = "Europe/Dublin"
    /\ dst([key |-> "Europe/Dublin"], last[1].outcome.value.timestamp) = Some(-3600)
    /\ last[1].outcome.value.is_dst

=============================================================================
